---- MODULE Spec2Model ----
(***************************************************************************)
(* Metals market analysis: the ingestion cycle (backend/etl_pipeline.py),  *)
(* the historical seeding run and the time bucketer (backend/seed_data.py) *)
(* and the volatility analytics (backend/analytics.py).                    *)
(*                                                                         *)
(* Python's None is modelled as 0 where the code tests an id for truth     *)
(* (`if not time_id`, `if metal_id and market_id and time_id`): ids of     *)
(* real rows are positive.                                                 *)
(***************************************************************************)
EXTENDS Integers, Sequences, FiniteSets, TLC

VARIABLES
    dimMetal,   \* table dim_metal: rows [id, name]
    dimMarket,  \* table dim_market: rows [id, name]
    dimTime,    \* table dim_time: rows [id, timestamp, date, day, month, year, hour]
    facts,      \* table fact_metal_prices
    clock,      \* wall clock (datetime.utcnow()), in hours since the calendar base
    ticks,      \* number of clock advances so far
    runs,       \* number of runs started so far
    faults,     \* number of store requests that have failed so far
    pc,         \* position of the single serialized job
    etl,        \* locals of run_etl
    seed,       \* locals of seed_history
    outcome,    \* how the last finished run ended: "none" | "returned" | "raised"
    lastResp,   \* the API response of the last fetch of run_etl
    lastEtl,    \* what run_etl did with the last instrument key it processed
    lastReq,    \* the last fact upsert request: [n, recs, ok, by]
    lastUp,     \* history: key -> price of the most recent successful upsert of the key
    tcPrev,     \* time bucketer harness: the call before the last
    tcLast,     \* time bucketer harness: the last call
    nCalls,     \* time bucketer harness: calls made
    df,         \* analytics: the input table (rows in timestamp order)
    threshold,  \* analytics: threshold_pct of detect_volatility
    anaPc,      \* analytics: "input" | "done"
    spikes,     \* analytics: result of detect_volatility
    mostVol,    \* analytics: result of identify_most_volatile
    query,      \* analytics: arguments of calculate_daily_change
    dailyChange \* analytics: result of calculate_daily_change

storeVars == <<dimMetal, dimMarket, dimTime, facts>>
jobVars == <<clock, ticks, runs, faults, pc, etl, seed, outcome, lastResp, lastEtl, lastReq, lastUp>>
tcVars == <<tcPrev, tcLast, nCalls>>
anaVars == <<df, threshold, anaPc, spikes, mostVol, query, dailyChange>>
vars == <<storeVars, jobVars, tcVars, anaVars>>

None == 0

----------------------------------------------------------------------------
(* Generic helpers                                                         *)

Max(a, b) == IF a >= b THEN a ELSE b

Abs(x) == IF x < 0 THEN -x ELSE x

RECURSIVE Pow10(_)
Pow10(n) == IF n = 0 THEN 1 ELSE 10 * Pow10(n - 1)

\* The decimal digits of n, zero-padded to width w (strftime's %Y, %m, %d, %H).
Digits(n, w) == [i \in 1..w |-> (n \div Pow10(w - i)) % 10]

\* int(): the number a string of decimal digits denotes.
RECURSIVE ParseInt(_)
ParseInt(s) ==
    IF Len(s) = 0 THEN 0
    ELSE 10 * ParseInt(SubSeq(s, 1, Len(s) - 1)) + s[Len(s)]

----------------------------------------------------------------------------
(* Time bucketer: seed_data.get_or_create_time_id                          *)
(* A datetime is [year, month, day, hour, minute]; the minute stands for   *)
(* everything below the hour.                                              *)

\* timestamp_dt.strftime("%Y%m%d%H") without the hour field: a plausible slip.
StrfTimeNoHour(dt) ==
    Digits(dt.year, 4) \o Digits(dt.month, 2) \o Digits(dt.day, 2)

\* timestamp_dt.strftime("%Y%m%d%H")
StrfTime(dt) ==
    Digits(dt.year, 4) \o Digits(dt.month, 2) \o Digits(dt.day, 2)
        \o Digits(dt.hour, 2)

\* timestamp_dt.isoformat(): every field down to the sub-hour part
\* (separators dropped).
IsoFormat(dt) ==
    Digits(dt.year, 4) \o Digits(dt.month, 2) \o Digits(dt.day, 2)
        \o Digits(dt.hour, 2) \o Digits(dt.minute, 2)

\* timestamp_dt.date().isoformat()
DateIso(dt) ==
    Digits(dt.year, 4) \o Digits(dt.month, 2) \o Digits(dt.day, 2)

\* time_id = int(timestamp_dt.strftime("%Y%m%d%H"))
TimeIdOf(dt) == ParseInt(StrfTime(dt))

\* The record with the date column taken from the full timestamp: a slip
\* that makes the date differ inside one hour.
TimeRecordDateFromTimestamp(dt) ==
    [id |-> TimeIdOf(dt), timestamp |-> IsoFormat(dt), date |-> IsoFormat(dt),
     day |-> dt.day, month |-> dt.month, year |-> dt.year, hour |-> dt.hour]

\* The record get_or_create_time_id upserts.
TimeRecord(dt) ==
    [id |-> TimeIdOf(dt), timestamp |-> IsoFormat(dt), date |-> DateIso(dt),
     day |-> dt.day, month |-> dt.month, year |-> dt.year, hour |-> dt.hour]

\* supabase.table("dim_time").upsert(record): insert, or overwrite the row of
\* the same primary key.
UpsertById(table, rec) == {r \in table : r.id # rec.id} \cup {rec}

\* get_or_create_time_id(timestamp_dt): the id returned and the table after;
\* storeOk is whether the store request succeeds (it raises otherwise, and
\* the function logs and returns None).
GetOrCreateTimeId(table, dt, storeOk) ==
    IF storeOk
    THEN [id |-> TimeIdOf(dt), table |-> UpsertById(table, TimeRecord(dt))]
    ELSE [id |-> None, table |-> table]

----------------------------------------------------------------------------
(* Values the variables hold while their part of the program is not run    *)

DtZero == [year |-> 0, month |-> 0, day |-> 0, hour |-> 0, minute |-> 0]

NoCall == [called |-> FALSE, dt |-> DtZero, id |-> None, ok |-> FALSE]

StoreEmpty ==
    /\ dimMetal = {}
    /\ dimMarket = {}
    /\ dimTime = {}
    /\ facts = {}

TcOff ==
    /\ tcPrev = NoCall
    /\ tcLast = NoCall
    /\ nCalls = 0

\* No call of calculate_daily_change made: no arguments, no result.
NoQuery == [metal |-> "", market |-> "", pad |-> TRUE]

NoChange == [kind |-> "unset", num |-> 0, den |-> 1]

AnaOff ==
    /\ df = <<>>
    /\ threshold = 0
    /\ anaPc = "off"
    /\ spikes = <<>>
    /\ mostVol = "None"
    /\ query = NoQuery
    /\ dailyChange = NoChange

----------------------------------------------------------------------------
(* The time bucketer called with arbitrary instants                        *)

MaxCalls == 2

Years == {2024, 2025}
Months == {1, 12}
Days == {1, 31}
Hours == {0, 23}
Minutes == {0, 59}

Instants ==
    [year : Years, month : Months, day : Days, hour : Hours, minute : Minutes]

SameHour(a, b) ==
    /\ a.year = b.year
    /\ a.month = b.month
    /\ a.day = b.day
    /\ a.hour = b.hour

\* One call get_or_create_time_id(dt), the store request succeeding or not.
TimeCall ==
    /\ nCalls < MaxCalls
    /\ \E dt \in Instants, storeOk \in BOOLEAN :
          LET r == GetOrCreateTimeId(dimTime, dt, storeOk) IN
          /\ dimTime' = r.table
          /\ tcPrev' = tcLast
          /\ tcLast' = [called |-> TRUE, dt |-> dt, id |-> r.id, ok |-> storeOk]
          /\ nCalls' = nCalls + 1
    /\ UNCHANGED <<dimMetal, dimMarket, facts, jobVars, anaVars>>

----------------------------------------------------------------------------
(* The store: dimension resolver and fact upsert                           *)

\* The id a serial primary key assigns to the next inserted row.
NextId(table) ==
    IF table = {} THEN 1
    ELSE 1 + (CHOOSE m \in {r.id : r \in table} :
                 \A x \in {r.id : r \in table} : x <= m)

\* A resolver that inserts without looking the natural key up.
GetOrCreateDimensionNoLookup(table, name, storeOk) ==
    IF ~storeOk THEN [id |-> None, table |-> table]
    ELSE [id |-> NextId(table),
          table |-> table \cup {[id |-> NextId(table), name |-> name]}]

\* get_or_create_dimension(table, column, value): look the natural key up and
\* return its id; insert one row and return the new id when it is absent; a
\* resolution failure (storeOk false) yields None and writes nothing.
GetOrCreateDimension(table, name, storeOk) ==
    IF ~storeOk THEN [id |-> None, table |-> table]
    ELSE IF \E r \in table : r.name = name
    THEN [id |-> (CHOOSE r \in table : r.name = name).id, table |-> table]
    ELSE [id |-> NextId(table),
          table |-> table \cup {[id |-> NextId(table), name |-> name]}]

\* on_conflict without the market column: two markets of one hour collide.
OnConflictNoMarket == {"metal_id", "time_id", "currency"}

\* on_conflict="metal_id,market_id,time_id,currency"
OnConflict == {"metal_id", "market_id", "time_id", "currency"}

Conflicts(r, rec) == \A c \in OnConflict : r[c] = rec[c]

\* A store that forgets every other row on upsert.
UpsertFactDropsOthers(table, rec) == {rec}

\* upsert(fact_record, on_conflict=...): insert the row, or overwrite the row
\* that agrees with it on the conflict columns.
UpsertFact(table, rec) == {r \in table : ~Conflicts(r, rec)} \cup {rec}

\* upsert(records, on_conflict=...): the rows of one request, in order.
RECURSIVE UpsertFacts(_, _)
UpsertFacts(table, recs) ==
    IF Len(recs) = 0 THEN table
    ELSE UpsertFacts(UpsertFact(table, Head(recs)), Tail(recs))

\* Foreign-key integrity of the fact table: a request naming a metal, market
\* or time bucket that is no row of its dimension is rejected as a whole.
FkOk(recs, metals, markets, times) ==
    \A i \in 1..Len(recs) :
        /\ recs[i].metal_id \in {r.id : r \in metals}
        /\ recs[i].market_id \in {r.id : r \in markets}
        /\ recs[i].time_id \in {r.id : r \in times}

FactKey(r) == <<r.metal_id, r.market_id, r.time_id, r.currency>>

\* History of the successful upserts: the price last written under each key.
Recorded(hist, recs) ==
    LET newKeys == {FactKey(recs[i]) : i \in 1..Len(recs)}
        lastAt(k) == CHOOSE i \in 1..Len(recs) :
                        /\ FactKey(recs[i]) = k
                        /\ \A j \in (i + 1)..Len(recs) : FactKey(recs[j]) # k
    IN [k \in DOMAIN hist \cup newKeys |->
           IF k \in newKeys THEN recs[lastAt(k)].price ELSE hist[k]]

----------------------------------------------------------------------------
(* Instrument keys of the API response, as strings of characters           *)

Kgold == <<"g", "o", "l", "d">>
Ksilver == <<"s", "i", "l", "v", "e", "r">>
KsilverMcx == <<"s", "i", "l", "v", "e", "r", "_", "m", "c", "x">>
KsilverLbma == <<"s", "i", "l", "v", "e", "r", "_", "l", "b", "m", "a">>
KsilverMcxPm == <<"s", "i", "l", "v", "e", "r", "_", "m", "c", "x", "_", "p", "m">>
KSilverUpperMcx == <<"S", "I", "L", "V", "E", "R", "_", "M", "C", "X">>
KsilverAm == <<"s", "i", "l", "v", "e", "r", "_", "a", "m">>

\* The instrument keys a response may carry, in the order the mapping
\* yields those it holds.
KeyOrder == <<Kgold, Ksilver, KsilverMcx, KsilverLbma, KsilverMcxPm,
              KSilverUpperMcx, KsilverAm>>

\* str.lower() on one character.
LowerChar(c) ==
    CASE c = "S" -> "s" [] c = "I" -> "i" [] c = "L" -> "l" [] c = "V" -> "v"
      [] c = "E" -> "e" [] c = "R" -> "r" [] c = "M" -> "m" [] c = "C" -> "c"
      [] c = "X" -> "x" [] OTHER -> c

\* metal_key.lower()
Lower(s) == [i \in 1..Len(s) |-> LowerChar(s[i])]

\* sub in s
Contains(s, sub) ==
    \E i \in 1..(Len(s) - Len(sub) + 1) : SubSeq(s, i, i + Len(sub) - 1) = sub

\* The market test with the LBMA suffixes tried before '_mcx'.
EtlMarketLbmaFirst(key) ==
    IF ~Contains(Lower(key), <<"s", "i", "l", "v", "e", "r">>) THEN "skip"
    ELSE IF \/ Contains(key, <<"_", "l", "b", "m", "a">>)
            \/ Contains(key, <<"_", "a", "m">>)
            \/ Contains(key, <<"_", "p", "m">>) THEN "skip"
    ELSE IF Contains(key, <<"_", "m", "c", "x">>) THEN "MCX"
    ELSE "Spot"

\* run_etl's filter and market choice for one instrument key: "skip" for a
\* `continue`, else the market whose pre-fetched id the fact gets.
EtlMarket(key) ==
    IF ~Contains(Lower(key), <<"s", "i", "l", "v", "e", "r">>) THEN "skip"
    ELSE IF Contains(key, <<"_", "m", "c", "x">>) THEN "MCX"
    ELSE IF \/ Contains(key, <<"_", "l", "b", "m", "a">>)
            \/ Contains(key, <<"_", "a", "m">>)
            \/ Contains(key, <<"_", "p", "m">>) THEN "skip"
    ELSE "Spot"

----------------------------------------------------------------------------
(* The serialized job: run_etl cycles and seed_history runs                 *)

MaxRuns == 2
MaxTicks == 1
\* store requests that may fail in one behaviour
MaxFaults == 1
\* timedelta(days=90), scaled to hours so that a run makes a few iterations
SeedSpan == 12
\* timedelta(hours=6)
SeedStep == 6
\* the batch threshold of seed_history (100 in the code), scaled
BatchSize == 4

Prices == {1, 2}
ClockInit == SeedSpan + SeedStep

\* currencies_to_fetch
Currencies == <<"INR">>

\* datetime arithmetic: the instant h hours after 2024-12-31T00:00, inside
\* the window 2024-12-31 .. 2025-01-31.
HourToDt(h) ==
    LET d == h \div 24 IN
    [year |-> IF d = 0 THEN 2024 ELSE 2025,
     month |-> IF d = 0 THEN 12 ELSE 1,
     day |-> IF d = 0 THEN 31 ELSE d,
     hour |-> h % 24,
     minute |-> 0]

\* EtlMarket of each key of KeyOrder.
MarketOfKey == [i \in 1..Len(KeyOrder) |-> EtlMarket(KeyOrder[i])]

\* What fetch_metals_data returns: ok FALSE is None (request error or non-2xx
\* status); otherwise a JSON object with the top-level fields `fields`. ts is
\* timestamps.metal as an hour (the current hour, or a quote last updated
\* one seeding step ago), -1 when it does not parse. The 'metals' mapping
\* holds any of the keys of KeyOrder; its entries are drawn as the instrument
\* loop reaches them.
Responses(now) ==
    [ok : {FALSE}, fields : {{}}, ts : {-1}]
    \cup [ok : {TRUE}, fields : {{}, {"timestamps"}, {"metals"}}, ts : {-1}]
    \cup [ok : {TRUE}, fields : {{"metals", "timestamps"}},
          ts : {-1, now - SeedStep, now}]

\* The test with the 'metals' check dropped.
ValidDataAnyObject(resp) == resp.ok /\ resp.fields # {}

\* not (not data or 'metals' not in data)
ValidData(resp) == resp.ok /\ resp.fields # {} /\ "metals" \in resp.fields

\* timestamps.metal parsed, or utcnow() when it is missing or does not parse.
TimestampOf(resp, now) ==
    IF "timestamps" \in resp.fields /\ resp.ts # -1 THEN resp.ts ELSE now

EtlIdle == [spot |-> None, mcx |-> None, ci |-> 0, time_id |-> None, pos |-> 0]

SeedIdle == [silver_id |-> None, spot_id |-> None, mcx_id |-> None,
             current |-> 0, end |-> 0, records |-> <<>>]

NoResp == [ok |-> FALSE, fields |-> {}, fetched |-> FALSE]

NoEtl == [key |-> <<>>, failed |-> FALSE, submitted |-> FALSE, ok |-> FALSE]

NoReq == [recs |-> <<>>, ok |-> FALSE, by |-> "none", hit |-> FALSE]

\* Whether a request overwrites a stored price with another one.
Hits(table, recs) ==
    \E i \in 1..Len(recs), r \in table :
        FactKey(r) = FactKey(recs[i]) /\ r.price # recs[i].price

Request(recs, ok, by) ==
    [recs |-> recs, ok |-> ok, by |-> by, hit |-> ok /\ Hits(facts, recs)]

JobOff ==
    /\ clock = ClockInit
    /\ ticks = 0
    /\ runs = 0
    /\ faults = 0
    /\ pc = "idle"
    /\ etl = EtlIdle
    /\ seed = SeedIdle
    /\ outcome = "none"
    /\ lastResp = NoResp
    /\ lastEtl = NoEtl
    /\ lastReq = NoReq
    /\ lastUp = <<>>

\* A store request that fails counts against the fault budget.
Cost(reqOk) == IF reqOk THEN 0 ELSE 1

Fact(metal_id, market_id, time_id, price, currency) ==
    [metal_id |-> metal_id, market_id |-> market_id, time_id |-> time_id,
     price |-> price, currency |-> currency, unit |-> "toz"]

\* The wall clock moves on between runs (a run reads it once); it is observed
\* one seeding step later, so that successive runs meet the same buckets.
Tick ==
    /\ pc = "idle"
    /\ ticks < MaxTicks
    /\ clock' = clock + SeedStep
    /\ ticks' = ticks + 1
    /\ UNCHANGED <<storeVars, runs, faults, pc, etl, seed, outcome, lastResp,
                   lastEtl, lastReq, lastUp, tcVars, anaVars>>

\* run_etl up to the currency loop: the two market ids are pre-fetched.
EtlStart ==
    /\ pc = "idle"
    /\ runs < MaxRuns
    /\ \E okSpot, okMcx \in BOOLEAN :
          LET a == GetOrCreateDimension(dimMarket, "Spot", okSpot)
              b == GetOrCreateDimension(a.table, "MCX", okMcx)
          IN /\ faults + Cost(okSpot) + Cost(okMcx) <= MaxFaults
             /\ faults' = faults + Cost(okSpot) + Cost(okMcx)
             /\ dimMarket' = b.table
             /\ etl' = [spot |-> a.id, mcx |-> b.id, ci |-> 1,
                        time_id |-> None, pos |-> 0]
    /\ pc' = "etl_fetch"
    /\ runs' = runs + 1
    /\ outcome' = "none"
    /\ lastResp' = NoResp
    /\ lastEtl' = NoEtl
    /\ lastReq' = NoReq
    /\ UNCHANGED <<dimMetal, dimTime, facts, clock, ticks, seed, lastUp,
                   tcVars, anaVars>>

\* One pass of `for currency in currencies_to_fetch` down to the time bucket.
EtlFetch ==
    /\ pc = "etl_fetch"
    /\ etl.ci <= Len(Currencies)
    /\ \E resp \in Responses(clock), timeOk \in BOOLEAN :
          /\ lastResp' = [ok |-> resp.ok, fields |-> resp.fields, fetched |-> TRUE]
          /\ IF ~ValidData(resp)
             THEN /\ timeOk
                  /\ etl' = [etl EXCEPT !.ci = @ + 1]
                  /\ UNCHANGED <<dimTime, pc, faults>>
             ELSE LET r == GetOrCreateTimeId(dimTime,
                               HourToDt(TimestampOf(resp, clock)), timeOk)
                  IN /\ faults + Cost(timeOk) <= MaxFaults
                     /\ faults' = faults + Cost(timeOk)
                     /\ dimTime' = r.table
                     /\ IF r.id = None
                        THEN /\ etl' = [etl EXCEPT !.ci = @ + 1]
                             /\ UNCHANGED pc
                        ELSE /\ etl' = [etl EXCEPT !.time_id = r.id,
                                                   !.pos = 0]
                             /\ pc' = "etl_keys"
    /\ UNCHANGED <<dimMetal, dimMarket, facts, clock, ticks, runs, seed,
                   outcome, lastEtl, lastReq, lastUp, tcVars, anaVars>>


\* One pass of `for metal_key, price in metals_map.items()`: the next entry
\* of the mapping is any later key of KeyOrder (the keys of a dict are
\* distinct), with any price.
EtlKey ==
    /\ pc = "etl_keys"
    /\ \E i \in (etl.pos + 1)..Len(KeyOrder), price \in Prices,
          metalOk, upOk \in BOOLEAN :
          LET key == KeyOrder[i]
              m == MarketOfKey[i]
              market_id == IF m = "MCX" THEN etl.mcx ELSE etl.spot
              d == GetOrCreateDimension(dimMetal, "Silver", metalOk)
              rec == Fact(d.id, market_id, etl.time_id, price,
                          Currencies[etl.ci])
              submit == d.id # None /\ market_id # None /\ etl.time_id # None
              ok == submit /\ upOk /\ FkOk(<<rec>>, d.table, dimMarket, dimTime)
          IN /\ etl' = [etl EXCEPT !.pos = i]
             /\ IF m = "skip"
                THEN /\ metalOk /\ upOk
                     /\ lastEtl' = [NoEtl EXCEPT !.key = key]
                     /\ UNCHANGED <<dimMetal, facts, lastReq, lastUp, faults>>
                ELSE
                  /\ submit \/ upOk
                  /\ faults + Cost(metalOk) + Cost(upOk) <= MaxFaults
                  /\ faults' = faults + Cost(metalOk) + Cost(upOk)
                  /\ dimMetal' = d.table
                  /\ facts' = IF ok THEN UpsertFacts(facts, <<rec>>) ELSE facts
                  /\ lastUp' = IF ok THEN Recorded(lastUp, <<rec>>) ELSE lastUp
                  /\ lastReq' = IF submit THEN Request(<<rec>>, ok, "etl")
                                ELSE lastReq
                  /\ lastEtl' = [key |-> key, failed |-> ~(metalOk /\ upOk),
                                 submitted |-> submit, ok |-> ok]
    /\ UNCHANGED <<dimMarket, dimTime, clock, ticks, runs, pc, seed, outcome,
                   lastResp, tcVars, anaVars>>

\* The instrument loop is exhausted: on to the next currency.
EtlNext ==
    /\ pc = "etl_keys"
    /\ etl' = [etl EXCEPT !.ci = @ + 1, !.time_id = None, !.pos = 0]
    /\ pc' = "etl_fetch"
    /\ lastEtl' = NoEtl
    /\ lastReq' = NoReq
    /\ UNCHANGED <<storeVars, clock, ticks, runs, faults, seed, outcome,
                   lastResp, lastUp, tcVars, anaVars>>

\* The currency loop is exhausted: "ETL process completed successfully."
EtlFinish ==
    /\ pc = "etl_fetch"
    /\ etl.ci > Len(Currencies)
    /\ pc' = "idle"
    /\ outcome' = "returned"
    /\ etl' = EtlIdle
    /\ UNCHANGED <<storeVars, clock, ticks, runs, faults, seed, lastResp,
                   lastEtl, lastReq, lastUp, tcVars, anaVars>>

\* next((m['id'] for m in rows if name in m[...]), None); for the names the
\* program creates ("Silver", "Spot", "MCX") the substring test is equality.
FirstId(table, name) ==
    IF \E r \in table : r.name = name
    THEN (CHOOSE r \in table : r.name = name).id
    ELSE None

\* seed_history up to the while loop.
SeedStart ==
    /\ pc = "idle"
    /\ runs < MaxRuns
    /\ runs' = runs + 1
    /\ lastReq' = NoReq
    /\ lastResp' = NoResp
    /\ IF dimMetal = {} \/ dimMarket = {} \/ FirstId(dimMetal, "Silver") = None
       THEN /\ outcome' = "returned"
            /\ UNCHANGED <<pc, seed>>
       ELSE /\ outcome' = "none"
            /\ pc' = "seed_loop"
            /\ seed' = [silver_id |-> FirstId(dimMetal, "Silver"),
                        spot_id |-> FirstId(dimMarket, "Spot"),
                        mcx_id |-> FirstId(dimMarket, "MCX"),
                        current |-> clock - SeedSpan, end |-> clock,
                        records |-> <<>>]
    /\ UNCHANGED <<storeVars, clock, ticks, faults, etl, lastEtl, lastUp,
                   tcVars, anaVars>>

\* One pass of `while current_date <= end_date`. The random walk is a free
\* choice of the spot price; the MCX price carries a premium over it.
SeedIter ==
    /\ pc = "seed_loop"
    /\ seed.current <= seed.end
    /\ \E timeOk, upOk \in BOOLEAN, price \in Prices :
          LET r == GetOrCreateTimeId(dimTime, HourToDt(seed.current), timeOk)
              spotRec == Fact(seed.silver_id, seed.spot_id, r.id, price, "INR")
              mcxRec == Fact(seed.silver_id, seed.mcx_id, r.id, price + 1, "INR")
              recs1 == Append(seed.records, spotRec)
              recs2 == IF seed.mcx_id # None THEN Append(recs1, mcxRec) ELSE recs1
              flush == Len(recs2) >= BatchSize
              ok == upOk /\ FkOk(recs2, dimMetal, dimMarket, r.table)
          IN /\ dimTime' = r.table
             /\ (timeOk /\ flush) \/ upOk
             /\ faults + Cost(timeOk) + Cost(upOk) <= MaxFaults
             /\ faults' = faults + Cost(timeOk) + Cost(upOk)
             /\ IF r.id = None
                THEN /\ seed' = [seed EXCEPT !.current = @ + SeedStep]
                     /\ UNCHANGED <<facts, lastReq, lastUp>>
                ELSE /\ facts' = IF flush /\ ok THEN UpsertFacts(facts, recs2)
                                 ELSE facts
                     /\ lastUp' = IF flush /\ ok THEN Recorded(lastUp, recs2)
                                  ELSE lastUp
                     /\ lastReq' = IF flush
                                   THEN Request(recs2, ok, "seed_batch")
                                   ELSE lastReq
                     /\ seed' = [seed EXCEPT
                                   !.records = IF flush /\ ok THEN <<>> ELSE recs2,
                                   !.current = @ + SeedStep]
    /\ UNCHANGED <<dimMetal, dimMarket, clock, ticks, runs, pc, etl, outcome,
                   lastResp, lastEtl, tcVars, anaVars>>

\* After the loop: `if records:` the unguarded final upsert, then
\* "Seeding complete."; a failing request raises out of seed_history.
SeedFlush ==
    /\ pc = "seed_loop"
    /\ seed.current > seed.end
    /\ \E upOk \in BOOLEAN :
          LET ok == upOk /\ FkOk(seed.records, dimMetal, dimMarket, dimTime) IN
          IF seed.records = <<>>
          THEN /\ upOk
               /\ outcome' = "returned"
               /\ UNCHANGED <<facts, lastReq, lastUp, faults>>
          ELSE /\ faults + Cost(upOk) <= MaxFaults
               /\ faults' = faults + Cost(upOk)
               /\ facts' = IF ok THEN UpsertFacts(facts, seed.records) ELSE facts
               /\ lastUp' = IF ok THEN Recorded(lastUp, seed.records) ELSE lastUp
               /\ lastReq' = Request(seed.records, ok, "seed_final")
               /\ outcome' = IF ok THEN "returned" ELSE "raised"
    /\ pc' = "idle"
    /\ seed' = SeedIdle
    /\ UNCHANGED <<dimMetal, dimMarket, dimTime, clock, ticks, runs, etl,
                   lastResp, lastEtl, tcVars, anaVars>>

Init ==
    /\ StoreEmpty
    /\ JobOff
    /\ TcOff
    /\ AnaOff

Next ==
    \/ Tick
    \/ EtlStart
    \/ EtlFetch
    \/ EtlKey
    \/ EtlNext
    \/ EtlFinish
    \/ SeedStart
    \/ SeedIter
    \/ SeedFlush

Spec == Init /\ [][Next]_vars

NextTime == TimeCall

SpecTime == Init /\ [][NextTime]_vars

----------------------------------------------------------------------------
(* Analytics: backend/analytics.py                                         *)
(* The table df is a sequence of rows [metal, market, price, ts, day] in   *)
(* timestamp order, as get_data_for_analytics returns it. A percentage is  *)
(* kept exact, as the fraction num/den; NaN is the value with nan TRUE.    *)

NaN == [nan |-> TRUE, num |-> 0, den |-> 1]

Frac(n, d) == [nan |-> FALSE, num |-> n, den |-> d]

\* Series.unique(): the values in order of first appearance.
RECURSIVE Unique(_)
Unique(s) ==
    IF Len(s) = 0 THEN <<>>
    ELSE LET u == Unique(SubSeq(s, 1, Len(s) - 1)) IN
         IF \E i \in 1..Len(u) : u[i] = s[Len(s)] THEN u
         ELSE Append(u, s[Len(s)])

MetalsOf(table) == Unique([i \in 1..Len(table) |-> table[i].metal])

MarketsOf(table) == Unique([i \in 1..Len(table) |-> table[i].market])

\* df[(df['metal'] == metal) & (df['market'] == market)]
Subset(table, metal, market) ==
    SelectSeq(table, LAMBDA r : r.metal = metal /\ r.market = market)

\* pct_change() measured against the first value of the series.
PctChangeFromFirst(prices) ==
    [i \in 1..Len(prices) |->
        IF i = 1 THEN NaN
        ELSE Frac((prices[i] - prices[1]) * 100, prices[1])]

\* subset['price'].pct_change() * 100
PctChange(prices) ==
    [i \in 1..Len(prices) |->
        IF i = 1 THEN NaN
        ELSE Frac((prices[i] - prices[i - 1]) * 100, prices[i - 1])]

\* abs(change) > threshold_pct (false for NaN; prices are positive)
AbsGreater(change, thr) ==
    ~change.nan /\ Abs(change.num) > thr * change.den

\* The body of detect_volatility's inner loop for one (metal, market): the
\* alerts it appends.
SpikesOfPair(table, metal, market, thr) ==
    LET subset == Subset(table, metal, market)
        changes == PctChange([i \in 1..Len(subset) |-> subset[i].price])
    IN IF Len(subset) < 2 THEN <<>>
       ELSE IF AbsGreater(changes[Len(changes)], thr)
       THEN <<[metal |-> metal, market |-> market,
               change |-> changes[Len(changes)],
               date |-> subset[Len(subset)].ts]>>
       ELSE <<>>

\* `for metal in metals: for market in markets:` from the n-th pair on.
RECURSIVE SpikesFrom(_, _, _, _, _)
SpikesFrom(table, metals, markets, thr, n) ==
    IF n > Len(metals) * Len(markets) THEN <<>>
    ELSE SpikesOfPair(table, metals[((n - 1) \div Len(markets)) + 1],
                      markets[((n - 1) % Len(markets)) + 1], thr)
         \o SpikesFrom(table, metals, markets, thr, n + 1)

\* detect_volatility(df, threshold_pct)
DetectVolatility(table, thr) ==
    SpikesFrom(table, MetalsOf(table), MarketsOf(table), thr, 1)

MaxRows == 3

MetalNames == {"Gold", "Silver"}
MarketNames == {"Spot", "MCX"}
\* Prices and thresholds at which binary floating point is exact on the
\* threshold itself: 100 -> 125 is 25.0.
VolPrices == {100, 101, 104, 125}
Thresholds == {3, 25}

VolRows == [metal : MetalNames, market : MarketNames, price : VolPrices]

\* Row i carries timestamp i: the table is in timestamp order.
Stamped(q) ==
    [i \in 1..Len(q) |-> [metal |-> q[i].metal, market |-> q[i].market,
                          price |-> q[i].price, ts |-> i, day |-> i]]

InitVol ==
    /\ StoreEmpty
    /\ JobOff
    /\ TcOff
    /\ \E n \in 1..MaxRows : \E q \in [1..n -> VolRows] : df = Stamped(q)
    /\ threshold \in Thresholds
    /\ anaPc = "input"
    /\ spikes = <<>>
    /\ mostVol = "None"
    /\ query = NoQuery
    /\ dailyChange = NoChange

\* The dashboard's alert tab: spikes = detect_volatility(df)
DetectVolatilityRun ==
    /\ anaPc = "input"
    /\ spikes' = DetectVolatility(df, threshold)
    /\ anaPc' = "done"
    /\ UNCHANGED <<storeVars, jobVars, tcVars, df, threshold, mostVol, query,
                   dailyChange>>

NextVol == DetectVolatilityRun

SpecVol == InitVol /\ [][NextVol]_vars

\* The index of the last row of subset dated on or before day d:
\* resample('D').last() takes a day's last row, and pct_change() pads a day
\* without rows with the day before (its default fill_method).
LastRowUpTo(subset, d) ==
    CHOOSE i \in 1..Len(subset) :
        /\ subset[i].day <= d
        /\ \A j \in 1..Len(subset) : subset[j].day <= d => j <= i

\* subset['price'].resample('D').last(): one price per calendar day from
\* the first row's day to the last row's day.
DailyLast(subset) ==
    [k \in 1..(subset[Len(subset)].day - subset[1].day + 1) |->
        subset[LastRowUpTo(subset, subset[1].day + k - 1)].price]

\* daily.pct_change(): day-over-day returns, NaN on the first day.
DailyReturns(daily) ==
    [i \in 1..Len(daily) |->
        IF i = 1 THEN NaN
        ELSE Frac(daily[i] - daily[i - 1], daily[i - 1])]

RECURSIVE Product(_)
Product(s) == IF Len(s) = 0 THEN 1 ELSE s[1] * Product(Tail(s))

RECURSIVE Sum(_)
Sum(s) == IF Len(s) = 0 THEN 0 ELSE s[1] + Sum(Tail(s))

\* Series.std(): the sample standard deviation (ddof = 1) of the values
\* that are not NaN, NaN when fewer than two remain. The value kept is the
\* variance, an exact fraction; variances order as their roots do.
Std(returns) ==
    LET xs == SelectSeq(returns, LAMBDA x : ~x.nan)
        m == Len(xs)
        D == Product([i \in 1..m |-> xs[i].den])
        R == [i \in 1..m |-> xs[i].num * (D \div xs[i].den)]
    IN IF m < 2 THEN NaN
       ELSE Frac(m * Sum([i \in 1..m |-> R[i] * R[i]]) - Sum(R) * Sum(R),
                 m * (m - 1) * D * D)

\* a > b on floats: false when either side is NaN.
Greater(a, b) == ~a.nan /\ ~b.nan /\ a.num * b.den > b.num * a.den

\* The loop of identify_most_volatile over metals[n..]: the entries it adds
\* to volatility_scores, in insertion order. The length test counts the
\* rows of the subset.
RECURSIVE VolatilityScores(_, _, _)
VolatilityScores(table, metals, n) ==
    IF n > Len(metals) THEN <<>>
    ELSE LET subset == Subset(table, metals[n], "Spot") IN
         (IF Len(subset) < 3 THEN <<>>
          ELSE <<[metal |-> metals[n],
                  score |-> Std(DailyReturns(DailyLast(subset)))]>>)
         \o VolatilityScores(table, metals, n + 1)

\* max(volatility_scores, key=volatility_scores.get): the first entry stays
\* the result until an entry compares greater.
RECURSIVE MaxByScore(_)
MaxByScore(scores) ==
    IF Len(scores) = 1 THEN scores[1]
    ELSE LET best == MaxByScore(SubSeq(scores, 1, Len(scores) - 1)) IN
         IF Greater(scores[Len(scores)].score, best.score)
         THEN scores[Len(scores)] ELSE best

\* identify_most_volatile(df)
IdentifyMostVolatile(table) ==
    LET scores == VolatilityScores(table, MetalsOf(table), 1) IN
    IF Len(scores) = 0 THEN "None" ELSE MaxByScore(scores).metal

MaxSeries == 3

MvPrices == {1, 2}

\* A series is a sequence of rows, each on the day of the row before it or
\* on the next day.
SeriesRows == [step : {0, 1}, price : MvPrices]

SeriesSet == UNION {[1..n -> SeriesRows] : n \in 0..MaxSeries}

SeriesTable(metal, market, q) ==
    [i \in 1..Len(q) |->
        [metal |-> metal, market |-> market, price |-> q[i].price,
         ts |-> 0, day |-> 1 + Sum([j \in 1..i |-> q[j].step])]]

\* The futures rows of a table: none, or one metal's three rows on three
\* days with prices 1, 2, 1.
McxSet ==
    {<<>>} \cup
    {SeriesTable(m, "MCX", <<[step |-> 0, price |-> 1],
                               [step |-> 1, price |-> 2],
                               [step |-> 1, price |-> 1]>>) : m \in MetalNames}

\* The rows in timestamp order (sort_values('timestamp')): day by day.
RECURSIVE ByDay(_, _)
ByDay(rows, d) ==
    IF d > MaxSeries + 1 THEN <<>>
    ELSE SelectSeq(rows, LAMBDA r : r.day = d) \o ByDay(rows, d + 1)

Restamped(rows) == [i \in 1..Len(rows) |-> [rows[i] EXCEPT !.ts = i]]

\* The table of a Gold and a Silver Spot series and the futures rows x.
MvTable(g, v, x) ==
    Restamped(ByDay(SeriesTable("Gold", "Spot", g)
                    \o SeriesTable("Silver", "Spot", v) \o x, 1))

InitMv ==
    /\ StoreEmpty
    /\ JobOff
    /\ TcOff
    /\ \E g \in SeriesSet, v \in SeriesSet, x \in McxSet :
          /\ df = MvTable(g, v, x)
          /\ df # <<>>
    /\ threshold = 0
    /\ anaPc = "input"
    /\ spikes = <<>>
    /\ mostVol = "None"
    /\ query = NoQuery
    /\ dailyChange = NoChange

\* The dashboard's insight tab: most_volatile = identify_most_volatile(df)
MostVolatileRun ==
    /\ anaPc = "input"
    /\ mostVol' = IdentifyMostVolatile(df)
    /\ anaPc' = "done"
    /\ UNCHANGED <<storeVars, jobVars, tcVars, df, threshold, spikes, query,
                   dailyChange>>

NextMv == MostVolatileRun

SpecMv == InitMv /\ [][NextMv]_vars

\* The index of the last row of subset dated on day d.
LastRowOn(subset, d) ==
    CHOOSE i \in 1..Len(subset) :
        /\ subset[i].day = d
        /\ \A j \in 1..Len(subset) : subset[j].day = d => j <= i

\* subset['price'].resample('D').last(): one entry per calendar day from the
\* first row's day to the last row's day, the day's last price, NaN (nan
\* TRUE) for a day without rows.
ResampleLast(subset) ==
    [k \in 1..(subset[Len(subset)].day - subset[1].day + 1) |->
        LET d == subset[1].day + k - 1 IN
        IF \E i \in 1..Len(subset) : subset[i].day = d
        THEN [nan |-> FALSE, v |-> subset[LastRowOn(subset, d)].price]
        ELSE [nan |-> TRUE, v |-> 0]]

\* Forward fill: a NaN entry takes the value of the last entry before it
\* that is not NaN (the first entry of a resampled series never is NaN).
FillPad(daily) ==
    [i \in 1..Len(daily) |->
        daily[CHOOSE j \in 1..i :
                 /\ ~daily[j].nan
                 /\ \A h \in (j + 1)..i : daily[h].nan]]

\* daily.pct_change() * 100. The library version decides whether NaN
\* entries are forward-filled first: pandas before 3.0 pads by default
\* (fill_method='pad'), pandas 3.0 does not fill; the repository pins no
\* version.
DailyPctChange(daily, pad) ==
    LET d == IF pad THEN FillPad(daily) ELSE daily IN
    [i \in 1..Len(d) |->
        IF i = 1 \/ d[i].nan \/ d[i - 1].nan THEN NaN
        ELSE Frac((d[i].v - d[i - 1].v) * 100, d[i - 1].v)]

\* Series.dropna()
DropNa(xs) == SelectSeq(xs, LAMBDA x : ~x.nan)

\* calculate_daily_change(df, metal_name, market_name)
CalculateDailyChange(table, metal, market, pad) ==
    LET subset == Subset(table, metal, market) IN
    IF Len(subset) = 0 THEN [kind |-> "None", num |-> 0, den |-> 1]
    ELSE LET changes == DropNa(DailyPctChange(ResampleLast(subset), pad)) IN
         IF Len(changes) = 0 THEN [kind |-> "value", num |-> 0, den |-> 1]
         ELSE [kind |-> "value", num |-> changes[Len(changes)].num,
               den |-> changes[Len(changes)].den]

MaxDcRows == 3

DcPrices == {100, 110}

\* A row is dated on the day of the row before it, on the next day, or on
\* the day after the next.
DcRows == [metal : MetalNames, market : MarketNames, price : DcPrices,
           step : {0, 1, 2}]

DcTable(q) ==
    [i \in 1..Len(q) |->
        [metal |-> q[i].metal, market |-> q[i].market, price |-> q[i].price,
         ts |-> i, day |-> 1 + Sum([j \in 1..i |-> q[j].step])]]

InitDc ==
    /\ StoreEmpty
    /\ JobOff
    /\ TcOff
    /\ \E n \in 1..MaxDcRows : \E q \in [1..n -> DcRows] : df = DcTable(q)
    /\ query \in [metal : MetalNames, market : MarketNames, pad : BOOLEAN]
    /\ threshold = 0
    /\ anaPc = "input"
    /\ spikes = <<>>
    /\ mostVol = "None"
    /\ dailyChange = NoChange

\* The dashboard's KPI cards: change = calculate_daily_change(df, metal,
\* market)
DailyChangeRun ==
    /\ anaPc = "input"
    /\ dailyChange' = CalculateDailyChange(df, query.metal, query.market,
                                           query.pad)
    /\ anaPc' = "done"
    /\ UNCHANGED <<storeVars, jobVars, tcVars, df, threshold, spikes, mostVol,
                   query>>

NextDc == DailyChangeRun

SpecDc == InitDc /\ [][NextDc]_vars

----------------------------------------------------------------------------
(* Claims on the time bucketer (checked under SpecTime)                    *)

BothCalls == tcPrev.called /\ tcPrev.ok /\ tcLast.called /\ tcLast.ok

\* C3: get_or_create_time_id returns year*1000000 + month*10000 + day*100 +
\* hour, the row it upserts carries the date, day, month, year and hour of
\* that hour, and two instants get the same id exactly when they fall in the
\* same calendar hour.
C3_TimeIdEncodesHour ==
    /\ (tcLast.called /\ tcLast.ok) =>
          /\ tcLast.id = tcLast.dt.year * 1000000 + tcLast.dt.month * 10000
                           + tcLast.dt.day * 100 + tcLast.dt.hour
          /\ \E r \in dimTime :
                /\ r.id = tcLast.id
                /\ r.year = tcLast.dt.year
                /\ r.month = tcLast.dt.month
                /\ r.day = tcLast.dt.day
                /\ r.hour = tcLast.dt.hour
                /\ ParseInt(r.date) = tcLast.dt.year * 10000
                                        + tcLast.dt.month * 100 + tcLast.dt.day
    /\ BothCalls => (SameHour(tcPrev.dt, tcLast.dt) <=> tcPrev.id = tcLast.id)

\* Two successful calls inside one hour, at different minutes, got one id.
C3_Witness ==
    /\ BothCalls
    /\ SameHour(tcPrev.dt, tcLast.dt)
    /\ tcPrev.dt.minute # tcLast.dt.minute
    /\ tcPrev.id = tcLast.id

\* C4 as stated: after two calls inside one hour the dim_time row of the id
\* has the full content, timestamp included, that the first call alone leaves.
C4_SameRowAsSingleCall ==
    (BothCalls /\ SameHour(tcPrev.dt, tcLast.dt)) =>
        {r \in dimTime : r.id = tcLast.id}
            = GetOrCreateTimeId({}, tcPrev.dt, TRUE).table

\* C4 as amended: after two calls inside one hour there is one dim_time row of
\* the id; its id, date, day, month, year and hour are those a single call
\* leaves, and its timestamp is the instant of the most recent call.
C4_SameRowButTimestamp ==
    (BothCalls /\ SameHour(tcPrev.dt, tcLast.dt)) =>
        LET rows == {r \in dimTime : r.id = tcLast.id} IN
        /\ Cardinality(rows) = 1
        /\ \A r \in rows, one \in GetOrCreateTimeId({}, tcPrev.dt, TRUE).table :
              /\ r.id = one.id
              /\ r.date = one.date
              /\ r.day = one.day
              /\ r.month = one.month
              /\ r.year = one.year
              /\ r.hour = one.hour
              /\ r.timestamp = IsoFormat(tcLast.dt)

\* The second call of an hour overwrote the timestamp the first one stored.
C4_Witness ==
    /\ BothCalls
    /\ SameHour(tcPrev.dt, tcLast.dt)
    /\ \E r \in dimTime :
          /\ r.id = tcPrev.id
          /\ r.timestamp = IsoFormat(tcLast.dt)
          /\ r.timestamp # IsoFormat(tcPrev.dt)

----------------------------------------------------------------------------
(* Claims on the ingestion and seeding runs (checked under Spec)           *)

Ids(table) == {r.id : r \in table}

\* C1: the fact store holds exactly one row per (metal_id, market_id,
\* time_id, currency) key that was ever upserted, its price is the price of
\* the most recent successful upsert of the key, and upserting a stored
\* record again leaves the store as it is.
C1_OneRowPerKeyLatestPrice ==
    /\ \A r1, r2 \in facts : FactKey(r1) = FactKey(r2) => r1 = r2
    /\ {FactKey(r) : r \in facts} = DOMAIN lastUp
    /\ \A r \in facts : r.price = lastUp[FactKey(r)]
    /\ \A r \in facts : UpsertFacts(facts, <<r>>) = facts

\* A successful upsert has replaced the price stored under its key.
C1_Witness ==
    /\ lastReq.ok
    /\ lastReq.hit
    /\ \A i \in 1..Len(lastReq.recs) : lastReq.recs[i] \in facts

\* C2 as stated: every record of a fact upsert request names a metal, a
\* market and a time bucket that are rows of dim_metal, dim_market and
\* dim_time; none carries a missing (None) key.
C2_SubmittedKeysResolved ==
    \A i \in 1..Len(lastReq.recs) :
        /\ lastReq.recs[i].metal_id # None
        /\ lastReq.recs[i].market_id # None
        /\ lastReq.recs[i].time_id # None
        /\ lastReq.recs[i].metal_id \in Ids(dimMetal)
        /\ lastReq.recs[i].market_id \in Ids(dimMarket)
        /\ lastReq.recs[i].time_id \in Ids(dimTime)

Silver == <<"s", "i", "l", "v", "e", "r">>

IsLbmaKey(k) ==
    \/ Contains(k, <<"_", "l", "b", "m", "a">>)
    \/ Contains(k, <<"_", "a", "m">>)
    \/ Contains(k, <<"_", "p", "m">>)

\* The instrument pass just made wrote the fact of market `name`, unless a
\* store request of the pass failed or the market id never resolved.
WroteFor(name, market_id) ==
    /\ lastEtl.submitted =>
          /\ lastReq.by = "etl"
          /\ lastReq.recs[1].market_id \in {r.id : r \in {x \in dimMarket : x.name = name}}
          /\ lastReq.recs[1].metal_id \in {r.id : r \in {x \in dimMetal : x.name = "Silver"}}
    /\ (market_id # None /\ ~lastEtl.failed) =>
          /\ lastEtl.submitted
          /\ lastEtl.ok
          /\ lastReq.recs[1] \in facts

\* C5: for the instrument key run_etl has just processed: nothing is written
\* when the lowercased key lacks 'silver'; else with '_mcx' in the key the
\* fact is written for market MCX; else with '_lbma', '_am' or '_pm' nothing
\* is written; else the fact is written for market Spot; every written fact
\* is of metal Silver. (A fact is written means: submitted whenever the ids
\* resolved, and stored when no request of the pass failed.)
C5_SilverOnlyClassification ==
    (pc = "etl_keys" /\ lastEtl.key # <<>>) =>
        LET k == lastEtl.key IN
        IF ~Contains(Lower(k), Silver) THEN ~lastEtl.submitted
        ELSE IF Contains(k, <<"_", "m", "c", "x">>) THEN WroteFor("MCX", etl.mcx)
        ELSE IF IsLbmaKey(k) THEN ~lastEtl.submitted
        ELSE WroteFor("Spot", etl.spot)

\* The key 'silver_mcx_pm' was written as an MCX fact.
C5_Witness ==
    /\ pc = "etl_keys"
    /\ lastEtl.key = KsilverMcxPm
    /\ lastEtl.ok
    /\ \E r \in dimMarket : r.name = "MCX" /\ lastReq.recs[1].market_id = r.id

\* C6: a pass of the currency loop whose API call failed, or whose body has
\* no 'metals', writes no dim_time row and no fact, changes no table, moves
\* on to the next currency, and the run then ends by returning.
C6_FailedFetchSkipsCurrency ==
    [][/\ (/\ pc = "etl_fetch"
           /\ etl.ci <= Len(Currencies)
           /\ etl' # etl
           /\ (~lastResp'.ok \/ "metals" \notin lastResp'.fields))
          => /\ UNCHANGED <<dimMetal, dimMarket, dimTime, facts, lastReq>>
             /\ etl'.ci = etl.ci + 1
             /\ pc' = "etl_fetch"
       /\ (pc \in {"etl_fetch", "etl_keys"} /\ pc' = "idle")
          => outcome' = "returned"
       /\ (pc \in {"etl_fetch", "etl_keys"})
          => pc' \in {"etl_fetch", "etl_keys", "idle"}]_vars

\* A run whose only fetch returned an object without 'metals' has returned
\* with the time and fact tables still empty.
C6_Witness ==
    /\ pc = "idle"
    /\ outcome = "returned"
    /\ lastResp.fetched
    /\ lastResp.ok
    /\ "metals" \notin lastResp.fields
    /\ facts = {}
    /\ dimTime = {}

\* C7 as stated: a failing fact upsert request never aborts the run.
C7_UpsertFailureNeverAborts ==
    (lastReq.by # "none" /\ ~lastReq.ok) => outcome # "raised"

\* The bucket of time id tid has closed: the wall clock is in a later hour.
Closed(tid, now) == tid < TimeIdOf(HourToDt(now))

\* A step of a run that began after every stored fact was written: any
\* step of seed_history (its own keys are pairwise distinct), and the first
\* instrument pass of a run_etl cycle.
LaterRunStep == pc = "seed_loop" \/ (pc = "etl_keys" /\ etl.pos = 0)

\* C8 as stated: no fact row is ever deleted, and no later run changes a
\* fact of a bucket that has closed.
C8_ClosedBucketsImmutable ==
    [][\A r \in facts :
          /\ \E r2 \in facts' : FactKey(r2) = FactKey(r)
          /\ (LaterRunStep /\ Closed(r.time_id, clock)) => r \in facts']_vars

\* C8 as amended: no fact row is ever deleted, and a stored price changes
\* only through a successful upsert request that carries the row's key.
C8_NoDeleteChangeOnlyByUpsert ==
    [][\A r \in facts :
          /\ \E r2 \in facts' : FactKey(r2) = FactKey(r)
          /\ r \notin facts' =>
                /\ lastReq'.ok
                /\ \E i \in 1..Len(lastReq'.recs) :
                      /\ FactKey(lastReq'.recs[i]) = FactKey(r)
                      /\ lastReq'.recs[i] \in facts']_vars

\* A seeding request has overwritten the price of a closed bucket.
C8_Witness ==
    /\ lastReq.ok
    /\ lastReq.hit
    /\ lastReq.by \in {"seed_batch", "seed_final"}
    /\ \E i \in 1..Len(lastReq.recs) :
          /\ Closed(lastReq.recs[i].time_id, clock)
          /\ lastReq.recs[i] \in facts
          /\ lastUp[FactKey(lastReq.recs[i])] = lastReq.recs[i].price

----------------------------------------------------------------------------
(* Claims on the analytics (SpecVol, SpecMv)                               *)

\* The rows of df that belong to a (metal, market) pair.
PairRows(m, k) == {i \in 1..Len(df) : df[i].metal = m /\ df[i].market = k}

Latest(S) == CHOOSE i \in S : \A j \in S : j <= i

AlertsOf(m, k) ==
    {j \in 1..Len(spikes) : spikes[j].metal = m /\ spikes[j].market = k}

\* The pair has two observations and its latest one differs from the one
\* before it by more than the threshold percent.
Spiked(m, k) ==
    /\ Cardinality(PairRows(m, k)) >= 2
    /\ LET last == Latest(PairRows(m, k))
           prev == Latest(PairRows(m, k) \ {last})
       IN Abs(df[last].price - df[prev].price) * 100
              > threshold * df[prev].price

\* C9: detect_volatility returns exactly one alert for every (metal, market)
\* pair that has at least two observations and whose most recent
\* point-to-point change is larger in magnitude than the threshold percent,
\* carrying that change and the date of the latest observation, and no
\* alert for any other pair.
C9_OneAlertPerSpikedPair ==
    anaPc = "done" =>
        \A m \in MetalNames, k \in MarketNames :
            IF Spiked(m, k)
            THEN /\ Cardinality(AlertsOf(m, k)) = 1
                 /\ \A j \in AlertsOf(m, k) :
                      LET last == Latest(PairRows(m, k))
                          prev == Latest(PairRows(m, k) \ {last})
                      IN /\ spikes[j].date = df[last].ts
                         /\ ~spikes[j].change.nan
                         /\ spikes[j].change.num * df[prev].price
                              = (df[last].price - df[prev].price) * 100
                                  * spikes[j].change.den
            ELSE AlertsOf(m, k) = {}

\* A pair whose two observations enclose a row of another metal has raised
\* the only alert.
C9_Witness ==
    /\ anaPc = "done"
    /\ Len(df) = 3
    /\ Len(spikes) = 1
    /\ df[1].metal = df[3].metal
    /\ df[1].market = df[3].market
    /\ df[2].metal # df[1].metal
    /\ spikes[1].metal = df[1].metal

\* The days on which a metal has a Spot row: its daily points.
SpotDays(m) ==
    {df[i].day : i \in {j \in 1..Len(df) :
                          df[j].metal = m /\ df[j].market = "Spot"}}

Eligible == {m \in MetalNames : Cardinality(SpotDays(m)) >= 3}

ScoreOf(m) == Std(DailyReturns(DailyLast(Subset(df, m, "Spot"))))

FirstRow(m) ==
    CHOOSE i \in 1..Len(df) :
        df[i].metal = m /\ \A j \in 1..(i - 1) : df[j].metal # m

\* C10 as stated: identify_most_volatile returns the metal with the highest
\* standard deviation of day-over-day Spot returns among the metals that
\* have at least three daily points, the first-encountered on ties, and no
\* metal when every metal has fewer than three daily points.
C10_MostVolatileAmongEligible ==
    anaPc = "done" =>
        IF Eligible = {} THEN mostVol = "None"
        ELSE /\ mostVol \in Eligible
             /\ \A o \in Eligible \ {mostVol} :
                  \/ Greater(ScoreOf(mostVol), ScoreOf(o))
                  \/ /\ ~Greater(ScoreOf(o), ScoreOf(mostVol))
                     /\ FirstRow(mostVol) < FirstRow(o)

\* The calendar days on which the queried metal and market have a row.
QueryDays ==
    {df[i].day : i \in {j \in 1..Len(df) : df[j].metal = query.metal
                                            /\ df[j].market = query.market}}

\* The price of the last row of the queried metal and market on day d.
CloseOn(d) ==
    df[Latest({i \in 1..Len(df) : /\ df[i].metal = query.metal
                                  /\ df[i].market = query.market
                                  /\ df[i].day = d})].price

\* C11 as stated: calculate_daily_change returns (p_last / p_prev - 1) * 100
\* for the last-of-day prices of the most recent day that has data and of
\* the previous day that has data, 0 when fewer than two days have data,
\* and None when no row matches.
C11_ChangeOverLastTwoDataDays ==
    anaPc = "done" =>
        IF QueryDays = {} THEN dailyChange.kind = "None"
        ELSE /\ dailyChange.kind = "value"
             /\ IF Cardinality(QueryDays) < 2 THEN dailyChange.num = 0
                ELSE LET last == Latest(QueryDays)
                         prev == Latest(QueryDays \ {last})
                     IN dailyChange.num * CloseOn(prev)
                          = (CloseOn(last) - CloseOn(prev)) * 100
                              * dailyChange.den

----------------------------------------------------------------------------
(* Claims on the dimension resolver and the seeding batches (Spec)         *)

Named(table, name) == {r \in table : r.name = name}

\* One resolution of `name` that returned `id`, between the tables before
\* and after: an existing key leaves its row as the only one of the name
\* and returns its id; an absent key gets exactly one new row, under a
\* fresh id, which is returned; a failed resolution (None) inserts nothing.
Resolved(before, after, name, id) ==
    /\ Cardinality(Named(after, name)) <= 1
    /\ IF id = None THEN Named(after, name) = Named(before, name)
       ELSE /\ Named(after, name) # {}
            /\ \A r \in Named(after, name) : r.id = id
            /\ IF Named(before, name) # {}
               THEN Named(after, name) = Named(before, name)
               ELSE id \notin Ids(before)

\* C12: resolving a dimension natural key that exists returns the existing
\* row's id and inserts nothing, resolving an absent key inserts exactly one
\* row and returns its id; no step removes a dimension row or adds one of
\* another name, so dim_market never holds two rows named Spot or two named
\* MCX and dim_metal never two named Silver.
C12_ResolveOnceThenReuse ==
    [][/\ dimMarket \subseteq dimMarket'
       /\ dimMetal \subseteq dimMetal'
       /\ \A r \in dimMarket' : r.name \in {"Spot", "MCX"}
       /\ \A r \in dimMetal' : r.name = "Silver"
       /\ \A n \in {"Spot", "MCX"} : Cardinality(Named(dimMarket', n)) <= 1
       /\ Cardinality(dimMetal') <= 1
       /\ (pc = "idle" /\ pc' = "etl_fetch") =>
             /\ Resolved(dimMarket, dimMarket', "Spot", etl'.spot)
             /\ Resolved(dimMarket, dimMarket', "MCX", etl'.mcx)
       /\ (pc = "etl_keys" /\ lastEtl'.submitted /\ dimMetal' # dimMetal) =>
             Resolved(dimMetal, dimMetal', "Silver", lastReq'.recs[1].metal_id)
       /\ (pc = "etl_keys" /\ lastEtl'.submitted /\ dimMetal # {}) =>
             /\ dimMetal' = dimMetal
             /\ Resolved(dimMetal, dimMetal', "Silver",
                         lastReq'.recs[1].metal_id)]_vars

\* A second run_etl cycle has just resolved Spot and MCX to the rows the
\* first cycle created, and Silver exists since that cycle.
C12_Witness ==
    /\ runs = 2
    /\ pc = "etl_fetch"
    /\ etl.ci = 1
    /\ dimMetal # {}
    /\ etl.spot \in Ids(Named(dimMarket, "Spot"))
    /\ etl.mcx \in Ids(Named(dimMarket, "MCX"))

SeedRequest(req) == req.by \in {"seed_batch", "seed_final"}

Range(xs) == {xs[i] : i \in 1..Len(xs)}

\* C13 as stated: every fact upsert request of seed_history carries at most
\* the batch size of records, also after a batch upsert has failed, and
\* every record generated during the run is contained in some request: a
\* record waiting in `records` stays there until a request carries it, and
\* an iteration whose time bucket resolved adds its records to `records` or
\* to the request it issues.
C13_RequestsWithinBatchSize ==
    [][pc = "seed_loop" =>
         /\ (SeedRequest(lastReq') /\ lastReq' # lastReq) =>
               Len(lastReq'.recs) <= BatchSize
         /\ Range(seed.records)
               \subseteq Range(seed'.records) \cup Range(lastReq'.recs)
         /\ (seed.current <= seed.end /\ dimTime' # dimTime) =>
               \E r \in Range(seed'.records) \cup Range(lastReq'.recs) :
                   r.time_id = TimeIdOf(HourToDt(seed.current))]_vars

====
